---- MODULE Spec2Model ----
(***************************************************************************)
(* Air Golf: orientation filter, tip tracker, swing/hit state machine,     *)
(* impact resolver and flight simulator.                                   *)
(*                                                                         *)
(* Numbers.  A JavaScript number is modelled as a fixed-point integer with *)
(* three decimals (the real x is the integer 1000*x), or as one of the     *)
(* three non-finite values NaN, Infinity, -Infinity.  Metres are therefore *)
(* millimetres, seconds are milliseconds, and a unit quaternion has norm   *)
(* 1000.  Products and quotients are truncated towards zero; signed zeros  *)
(* and overflow to Infinity are not modelled.                              *)
(*                                                                         *)
(* Revisions.  The repository holds two revisions of the game logic and of *)
(* the tracker (game-logic.js with tracking.js, and unnamed/part_000 with  *)
(* unnamed/part_005).  The variable `revision' says which pair is loaded.  *)
(***************************************************************************)
EXTENDS Integers, Sequences, FiniteSets, TLC

\* ------------------------------------------------------------------------
\* Fixed-point numbers with the non-finite values of IEEE arithmetic
\* ------------------------------------------------------------------------
Scale == 10 * 10 * 10

NaN == 2 * (10 * 10 * 10 * 10 * 10 * 10 * 10 * 10 * 10) + 1
Infinity == 2 * (10 * 10 * 10 * 10 * 10 * 10 * 10 * 10 * 10)
NegInfinity == 0 - Infinity

isNaN(a) == a = NaN
isFinite(a) == a # NaN /\ a # Infinity /\ a # NegInfinity

F(n) == n * Scale

AbsInt(a) == IF a < 0 THEN 0 - a ELSE a
SignInt(a) == IF a < 0 THEN 0 - 1 ELSE IF a > 0 THEN 1 ELSE 0

Neg(a) ==
    IF a = NaN THEN NaN
    ELSE IF a = Infinity THEN NegInfinity
    ELSE IF a = NegInfinity THEN Infinity
    ELSE 0 - a

Add(a, b) ==
    IF a = NaN \/ b = NaN THEN NaN
    ELSE IF a = Infinity THEN (IF b = NegInfinity THEN NaN ELSE Infinity)
    ELSE IF a = NegInfinity THEN (IF b = Infinity THEN NaN ELSE NegInfinity)
    ELSE IF b = Infinity \/ b = NegInfinity THEN b
    ELSE a + b

Sub(a, b) == Add(a, Neg(b))

\* |a| * |b| / Scale without leaving 32 bits
MulMag(a, b) == a * (b \div Scale) + ((a * (b % Scale)) \div Scale)

Mul(a, b) ==
    IF a = NaN \/ b = NaN THEN NaN
    ELSE IF ~isFinite(a) \/ ~isFinite(b)
         THEN (IF a = 0 \/ b = 0 THEN NaN
               ELSE IF (a > 0) = (b > 0) THEN Infinity ELSE NegInfinity)
    ELSE SignInt(a) * SignInt(b) * MulMag(AbsInt(a), AbsInt(b))

\* |a| * Scale / |b| without leaving 32 bits
DivMag(a, b) == (a \div b) * Scale + (((a % b) * Scale) \div b)

Div(a, b) ==
    IF a = NaN \/ b = NaN THEN NaN
    ELSE IF ~isFinite(a)
         THEN (IF ~isFinite(b) THEN NaN
               ELSE IF (a > 0) = (b >= 0) THEN Infinity ELSE NegInfinity)
    ELSE IF ~isFinite(b) THEN 0
    ELSE IF b = 0
         THEN (IF a = 0 THEN NaN ELSE IF a > 0 THEN Infinity ELSE NegInfinity)
    ELSE SignInt(a) * SignInt(b) * DivMag(AbsInt(a), AbsInt(b))

\* comparisons: every comparison with NaN is false
Lt(a, b) == a # NaN /\ b # NaN /\ a < b
Gt(a, b) == Lt(b, a)
Le(a, b) == a # NaN /\ b # NaN /\ a <= b
Ge(a, b) == Le(b, a)

Abs(a) ==
    IF a = NaN THEN NaN
    ELSE IF ~isFinite(a) THEN Infinity
    ELSE AbsInt(a)

RECURSIVE ISqrtIter(_, _, _)
ISqrtIter(n, lo, hi) ==
    IF lo >= hi THEN lo
    ELSE LET mid == (lo + hi + 1) \div 2
         IN  IF mid * mid <= n THEN ISqrtIter(n, mid, hi)
             ELSE ISqrtIter(n, lo, mid - 1)

ISqrt(n) == ISqrtIter(n, 0, 46340)

\* Math.sqrt
Sqrt(a) ==
    IF a = NaN \/ a = NegInfinity THEN NaN
    ELSE IF a = Infinity THEN Infinity
    ELSE IF a < 0 THEN NaN
    ELSE IF a <= 2000000 THEN ISqrt(a * Scale)
    ELSE 100 * ISqrt(a \div 10)

Sq(a) == Mul(a, a)

\* Math.sqrt(a*a + b*b + c*c + d*d), the magnitude the code computes in many
\* places.  Computed on the integers so that it is zero only when every
\* component is zero, as in floating point.
Hypot4(a, b, c, d) ==
    IF a = NaN \/ b = NaN \/ c = NaN \/ d = NaN THEN NaN
    ELSE IF ~isFinite(a) \/ ~isFinite(b) \/ ~isFinite(c) \/ ~isFinite(d) THEN Infinity
    ELSE IF AbsInt(a) <= 20000 /\ AbsInt(b) <= 20000 /\ AbsInt(c) <= 20000
            /\ AbsInt(d) <= 20000
         THEN ISqrt(a * a + b * b + c * c + d * d)
    ELSE 100 * ISqrt((a \div 100) * (a \div 100) + (b \div 100) * (b \div 100)
                     + (c \div 100) * (c \div 100) + (d \div 100) * (d \div 100))

Norm3(v) == Hypot4(v.x, v.y, v.z, 0)

Vec(x, y, z) == [x |-> x, y |-> y, z |-> z]
ZeroVec == Vec(0, 0, 0)
Quat(w, x, y, z) == [w |-> w, x |-> x, y |-> y, z |-> z]
IdentityQuat == Quat(F(1), 0, 0, 0)

PI == 3142

\* ------------------------------------------------------------------------
\* Orientation filter (tracking.js; the same text in unnamed/part_005)
\* ------------------------------------------------------------------------
\* clubTipTracking.beta = 0.1
beta == 100

\* gx * Math.PI / 180
DegToRad(g) == Div(Mul(g, PI), F(180))

\* The gradient of the accelerometer term, lines 84-87
AccelGradient(q, ax, ay, az) ==
    LET _2q0 == Mul(F(2), q.w)
        _2q1 == Mul(F(2), q.x)
        _2q2 == Mul(F(2), q.y)
        _2q3 == Mul(F(2), q.z)
        _4q0 == Mul(F(4), q.w)
        _4q1 == Mul(F(4), q.x)
        _4q2 == Mul(F(4), q.y)
        _8q1 == Mul(F(8), q.x)
        _8q2 == Mul(F(8), q.y)
        q0q0 == Mul(q.w, q.w)
        q1q1 == Mul(q.x, q.x)
        q2q2 == Mul(q.y, q.y)
        q3q3 == Mul(q.z, q.z)
        s0 == Sub(Add(Add(Mul(_4q0, q2q2), Mul(_2q2, ax)), Mul(_4q0, q1q1)),
                  Mul(_2q1, ay))
        s1 == Add(Add(Add(Sub(Sub(Add(Sub(Mul(_4q1, q3q3), Mul(_2q3, ax)),
                                      Mul(Mul(F(4), q0q0), q.x)),
                                  Mul(_2q0, ay)),
                              _4q1),
                          Mul(_8q1, q1q1)),
                      Mul(_8q1, q2q2)),
                  Mul(_4q1, az))
        s2 == Add(Add(Add(Sub(Sub(Add(Add(Mul(Mul(F(4), q0q0), q.y), Mul(_2q0, ax)),
                                      Mul(_4q2, q3q3)),
                                  Mul(_2q3, ay)),
                              _4q2),
                          Mul(_8q2, q1q1)),
                      Mul(_8q2, q2q2)),
                  Mul(_4q2, az))
        s3 == Sub(Add(Sub(Mul(Mul(F(4), q1q1), q.z), Mul(_2q1, ax)),
                      Mul(Mul(F(4), q2q2), q.z)),
                  Mul(_2q2, ay))
    IN  Quat(s0, s1, s2, s3)

\* The magnetometer term subtracted from the gradient, lines 98-115
\* (mx, my, mz already normalised)
MagGradient(q, mx, my, mz) ==
    LET _2q0 == Mul(F(2), q.w)
        _2q1 == Mul(F(2), q.x)
        _2q2 == Mul(F(2), q.y)
        _2q3 == Mul(F(2), q.z)
        q0q0 == Mul(q.w, q.w)
        q1q1 == Mul(q.x, q.x)
        q2q2 == Mul(q.y, q.y)
        q3q3 == Mul(q.z, q.z)
        q0q1 == Mul(q.w, q.x)
        q0q2 == Mul(q.w, q.y)
        q0q3 == Mul(q.w, q.z)
        q1q2 == Mul(q.x, q.y)
        q1q3 == Mul(q.x, q.z)
        q2q3 == Mul(q.y, q.z)
        _2q0mx == Mul(Mul(F(2), q.w), mx)
        _2q0my == Mul(Mul(F(2), q.w), my)
        _2q0mz == Mul(Mul(F(2), q.w), mz)
        _2q1mx == Mul(Mul(F(2), q.x), mx)
        hx == Sub(Sub(Add(Add(Add(Add(Sub(Mul(mx, q0q0), Mul(_2q0my, q.z)),
                                      Mul(_2q0mz, q.y)),
                                  Mul(mx, q1q1)),
                              Mul(Mul(_2q1, my), q.y)),
                          Mul(Mul(_2q1, mz), q.z)),
                      Mul(mx, q2q2)),
                  Mul(mx, q3q3))
        hy == Sub(Add(Add(Sub(Add(Sub(Add(Mul(_2q0mx, q.z), Mul(my, q0q0)),
                                      Mul(_2q0mz, q.x)),
                                  Mul(_2q1mx, q.y)),
                              Mul(my, q1q1)),
                          Mul(my, q2q2)),
                      Mul(Mul(_2q2, mz), q.z)),
                  Mul(my, q3q3))
        _2bx == Hypot4(hx, hy, 0, 0)
        _2bz == Add(Sub(Add(Sub(Add(Add(Add(Neg(Mul(_2q0mx, q.y)), Mul(_2q0my, q.x)),
                                        Mul(mz, q0q0)),
                                    Mul(_2q1mx, q.z)),
                                Mul(mz, q1q1)),
                            Mul(Mul(_2q2, my), q.z)),
                        Mul(mz, q2q2)),
                    Mul(mz, q3q3))
        _4bx == Mul(F(2), _2bx)
        _4bz == Mul(F(2), _2bz)
        half == F(1) \div 2
        m0 == Add(Mul(Mul(Neg(_2q2), _2bx), Sub(Sub(Add(q1q1, q2q2), half), q3q3)),
                  Mul(Mul(_2q3, _2bz), Sub(q1q2, q0q3)))
        m1 == Sub(Mul(Mul(_2q2, _2bx), Add(q0q2, q1q3)),
                  Mul(Mul(_2q3, _2bz), Add(q0q1, q2q3)))
        m2 == Add(Sub(Mul(Mul(Neg(_2q1), _2bx), Add(q0q2, q1q3)),
                      Mul(Mul(_2q0, _2bz), Sub(Sub(half, q1q1), q2q2))),
                  Mul(_4bz, q.y))
        m3 == Sub(Add(Mul(Mul(_2q1, _2bx), Sub(Sub(Add(q1q1, q2q2), half), q3q3)),
                      Mul(Mul(_2q0, _2bz), Sub(q0q1, q2q3))),
                  Mul(_4bx, q.z))
    IN  Quat(m0, m1, m2, m3)

\* the gradient with both terms: s0 -= ..., lines 112-115
QuatSub(a, b) == Quat(Sub(a.w, b.w), Sub(a.x, b.x), Sub(a.y, b.y), Sub(a.z, b.z))

\* Lines 119-125: s / sNorm.  sNorm is not tested before it divides.
GradientDirection(s) ==
    LET sNorm == Hypot4(s.w, s.x, s.y, s.z)
    IN  Quat(Div(s.w, sNorm), Div(s.x, sNorm), Div(s.y, sNorm), Div(s.z, sNorm))

\* Lines 122-125: the rate of change of the quaternion, d the direction of
\* the gradient
QDot(q, d, gx, gy, gz) ==
    LET half == F(1) \div 2
    IN  Quat(Sub(Mul(half, Sub(Sub(Mul(Neg(q.x), gx), Mul(q.y, gy)), Mul(q.z, gz))),
                 Mul(beta, d.w)),
             Sub(Mul(half, Sub(Add(Mul(q.w, gx), Mul(q.y, gz)), Mul(q.z, gy))),
                 Mul(beta, d.x)),
             Sub(Mul(half, Add(Sub(Mul(q.w, gy), Mul(q.x, gz)), Mul(q.z, gx))),
                 Mul(beta, d.y)),
             Sub(Mul(half, Sub(Add(Mul(q.w, gz), Mul(q.x, gy)), Mul(q.y, gx))),
                 Mul(beta, d.z)))

\* Lines 128-131: q += qDot * dt
Integrate(q, qDot, dt) ==
    Quat(Add(q.w, Mul(qDot.w, dt)), Add(q.x, Mul(qDot.x, dt)),
         Add(q.y, Mul(qDot.y, dt)), Add(q.z, Mul(qDot.z, dt)))

\* Lines 134-138: q /= qNorm.  qNorm is not tested before it divides.
Normalize(q) ==
    LET qNorm == Hypot4(q.w, q.x, q.y, q.z)
    IN  Quat(Div(q.w, qNorm), Div(q.x, qNorm), Div(q.y, qNorm), Div(q.z, qNorm))

\* Lines 119-138: feedback step, integration and normalisation
FeedbackAndNormalize(q, s, gx, gy, gz, dt) ==
    Normalize(Integrate(q, QDot(q, GradientDirection(s), gx, gy, gz), dt))

\* Lines 90-117: the magnetometer term, zero without a magnetometer reading
MagTerm(q, mx0, my0, mz0) ==
    LET mNorm == Hypot4(mx0, my0, mz0, 0)
    IN  IF (mx0 # 0 \/ my0 # 0 \/ mz0 # 0) /\ Gt(mNorm, 0)
        THEN MagGradient(q, Div(mx0, mNorm), Div(my0, mNorm), Div(mz0, mNorm))
        ELSE Quat(0, 0, 0, 0)

\* Lines 53-60: the accelerometer reading, normalised
AccelTerm(q, ax0, ay0, az0) ==
    LET norm == Hypot4(ax0, ay0, az0, 0)
    IN  AccelGradient(q, Div(ax0, norm), Div(ay0, norm), Div(az0, norm))

\* madgwickFilterUpdate: the quaternion after the call (gyro in deg/s)
madgwickFilterUpdate(q, gxDeg, gyDeg, gzDeg, ax0, ay0, az0, dt, mx0, my0, mz0) ==
    IF Hypot4(ax0, ay0, az0, 0) = 0 THEN q
    ELSE FeedbackAndNormalize(q,
             QuatSub(AccelTerm(q, ax0, ay0, az0), MagTerm(q, mx0, my0, mz0)),
             DegToRad(gxDeg), DegToRad(gyDeg), DegToRad(gzDeg), dt)

\* ------------------------------------------------------------------------
\* Configuration (config.js, concatenated at the head of unnamed/part_005)
\* ------------------------------------------------------------------------
\* GameState
READY_TO_SET_BALL == "ready_to_set_ball"
BALL_SET_READY_TO_SWING == "ball_set_ready_to_swing"
SWINGING == "swinging"
BALL_FLYING == "ball_flying"
SHOWING_RESULTS == "showing_results"

GameState ==
    {READY_TO_SET_BALL, BALL_SET_READY_TO_SWING, SWINGING, BALL_FLYING, SHOWING_RESULTS}

\* defaultSettings, in fixed point (ballWeight 45.9 g is 45900)
defaultSettings ==
    [phoneOrientation |-> "edge",
     clubLength |-> 1200,
     clubWeight |-> F(200),
     ballDiameter |-> 4300,
     ballWeight |-> 45900,
     hitZoneDiameter |-> F(30),
     minSwingSpeed |-> F(5),
     loftAngle |-> F(25),
     gravity |-> 9810,
     airResistance |-> 500,
     impactPower |-> 1500,
     spinEffect |-> F(5),
     swingTimeout |-> F(10)]

\* the two revisions of game logic and tracker held by the repository
NAMED == "game-logic.js+tracking.js"
UNNAMED == "part_000+part_005"

\* a compass heading that is null (no magnetometer)
NoHeading == 0 - 1

\* Math.cos and Math.sin of a heading in degrees, on the headings the model
\* delivers (Math.cos(Math.PI/2) is 6e-17, which is 0 to three decimals)
CosDeg(h) == CASE h = 0 -> F(1) [] h = F(90) -> 0 [] h = F(180) -> 0 - F(1) [] OTHER -> 0
SinDeg(h) == CASE h = 0 -> 0 [] h = F(90) -> F(1) [] h = F(180) -> 0 [] OTHER -> 0 - F(1)

\* ------------------------------------------------------------------------
\* Tip tracker
\* ------------------------------------------------------------------------
\* Rotation of the local club vector (0, -clubLength, 0) by q: q * v * q^-1,
\* tracking.js lines 152-165
RotateClub(q, clubLength) ==
    LET localX == 0
        localY == Neg(clubLength)
        localZ == 0
        ix == Sub(Add(Mul(q.w, localX), Mul(q.y, localZ)), Mul(q.z, localY))
        iy == Sub(Add(Mul(q.w, localY), Mul(q.z, localX)), Mul(q.x, localZ))
        iz == Sub(Add(Mul(q.w, localZ), Mul(q.x, localY)), Mul(q.y, localX))
        iw == Sub(Sub(Mul(Neg(q.x), localX), Mul(q.y, localY)), Mul(q.z, localZ))
        tipX == Sub(Add(Add(Mul(ix, q.w), Mul(iw, Neg(q.x))), Mul(iy, Neg(q.z))),
                    Mul(iz, Neg(q.y)))
        tipY == Sub(Add(Add(Mul(iy, q.w), Mul(iw, Neg(q.y))), Mul(iz, Neg(q.x))),
                    Mul(ix, Neg(q.z)))
        tipZ == Sub(Add(Add(Mul(iz, q.w), Mul(iw, Neg(q.z))), Mul(ix, Neg(q.y))),
                    Mul(iy, Neg(q.x)))
    IN  Vec(tipX, tipY, tipZ)

\* tracking.js lines 167-178: the remap of the tip for the edge-first grip
EdgeRemapPosition(t) == Vec(t.y, t.x, t.z)

\* the rotated tip with the club length added to y, relative to the offset
RelativeTip(t, ct, clubLength) ==
    Vec(Sub(t.x, ct.offset.x),
        Sub(Add(t.y, clubLength), ct.offset.y),
        Sub(t.z, ct.offset.z))

\* calculateClubTipPosition of tracking.js: the new clubTipTracking.tipPosition
calculateClubTipPosition_named(ct, settings) ==
    RelativeTip(IF settings.phoneOrientation = "edge"
                THEN EdgeRemapPosition(RotateClub(ct.quaternion, settings.clubLength))
                ELSE RotateClub(ct.quaternion, settings.clubLength),
                ct, settings.clubLength)

\* calculateClubTipPosition of unnamed/part_005 (no grip remap)
calculateClubTipPosition_unnamed(ct, settings) ==
    RelativeTip(RotateClub(ct.quaternion, settings.clubLength), ct, settings.clubLength)

\* `v || 0' on a number: 0 and NaN give 0
OrZero(v) == IF v = NaN THEN 0 ELSE v

\* the magnetometer vector built from imuData.orientation.alpha
MagOf(alpha) ==
    IF alpha = NoHeading THEN ZeroVec ELSE Vec(CosDeg(alpha), SinDeg(alpha), 0)

\* history.filter(keep), oldest first
RECURSIVE FilterHistory(_, _, _)
FilterHistory(h, lo, strict) ==
    IF h = <<>> THEN <<>>
    ELSE LET keep == IF strict THEN Head(h).timestamp > lo ELSE Head(h).timestamp >= lo
         IN  (IF keep THEN <<Head(h)>> ELSE <<>>) \o FilterHistory(Tail(h), lo, strict)

\* the tip is stored and appended to the history
RecordTip(ct, tip, now) ==
    [ct EXCEPT !.tipPosition = tip,
               !.history = Append(@, [position |-> tip, timestamp |-> now])]

\* tracking.js: the filter is fed the sensor readings as they are
FilterStep_named(ct, imu, dt) ==
    LET m == MagOf(imu.alpha)
    IN  [ct EXCEPT !.quaternion =
            madgwickFilterUpdate(@,
                OrZero(imu.rotationRate.alpha), OrZero(imu.rotationRate.beta),
                OrZero(imu.rotationRate.gamma),
                OrZero(imu.acceleration.x), OrZero(imu.acceleration.y),
                OrZero(imu.acceleration.z), dt, m.x, m.y, m.z)]

\* tracking.js: the new tip, then only the last 2 seconds of history are kept
TrackTip_named(ct, settings, now) ==
    [RecordTip(ct, calculateClubTipPosition_named(ct, settings), now)
        EXCEPT !.history = FilterHistory(@, now - 2000, TRUE)]

\* updateClubTipTracking of tracking.js: the new clubTipTracking
updateClubTipTracking_named(ct, imu, settings, now) ==
    IF ct.lastUpdateTime = 0 THEN [ct EXCEPT !.lastUpdateTime = now]
    ELSE
    LET dt == now - ct.lastUpdateTime
        c1 == [ct EXCEPT !.lastUpdateTime = now]
    IN  IF dt > 100 THEN c1
        ELSE TrackTip_named(FilterStep_named(c1, imu, dt), settings, now)

\* clubTipTracking.motionThreshold = 2.0
motionThreshold == 2000

\* unnamed/part_005: the filter is fed the rotation rates and the x and y
\* accelerations negated
FilterStep_unnamed(ct, imu, dt) ==
    LET m == MagOf(imu.alpha)
    IN  [ct EXCEPT !.quaternion =
            madgwickFilterUpdate(@,
                Neg(OrZero(imu.rotationRate.alpha)), Neg(OrZero(imu.rotationRate.beta)),
                Neg(OrZero(imu.rotationRate.gamma)),
                Neg(OrZero(imu.acceleration.x)), Neg(OrZero(imu.acceleration.y)),
                OrZero(imu.acceleration.z), dt, m.x, m.y, m.z)]

\* unnamed/part_005: the new tip, then the history is kept from the start of
\* the motion, or emptied while tracking is not active
TrackTip_unnamed(ct, settings, now) ==
    [RecordTip(ct, calculateClubTipPosition_unnamed(ct, settings), now)
        EXCEPT !.history = IF ct.trackingActive
                           THEN FilterHistory(@, ct.trackingStartTime, FALSE)
                           ELSE <<>>]

\* updateClubTipTracking of unnamed/part_005: the new clubTipTracking
updateClubTipTracking_unnamed(ct, imu, settings, now, ballSet) ==
    IF ct.lastUpdateTime = 0 THEN [ct EXCEPT !.lastUpdateTime = now]
    ELSE
    LET dt == now - ct.lastUpdateTime
        c1 == [ct EXCEPT !.lastUpdateTime = now]
    IN  IF dt > 100 THEN c1
        ELSE IF ballSet /\ ~c1.trackingActive
        THEN LET accelMag == Hypot4(OrZero(imu.acceleration.x), OrZero(imu.acceleration.y),
                                    OrZero(imu.acceleration.z), 0)
             IN  IF Gt(accelMag, motionThreshold)
                 THEN [c1 EXCEPT !.trackingActive = TRUE,
                                 !.trackingStartTime = now,
                                 !.history = <<>>]
                 ELSE c1
        ELSE TrackTip_unnamed(FilterStep_unnamed(c1, imu, dt), settings, now)

\* resetTracking (both revisions; tracking.js has no motion-gating fields,
\* which stay at their initial values there)
resetTracking ==
    [quaternion |-> IdentityQuat,
     tipPosition |-> ZeroVec,
     offset |-> ZeroVec,
     history |-> <<>>,
     lastUpdateTime |-> 0,
     trackingActive |-> FALSE,
     trackingStartTime |-> 0]

\* ------------------------------------------------------------------------
\* Program state.  The operators below take and return a record w of the
\* whole state, one field per module-level object of the source:
\*   currentState, ballPositionSet (ballPosition.set), swingData, swingTimer,
\*   swingRecorder, lastShot, clubTipTracking, imuData, ballFlight,
\*   setBallBtnDisabled, and the read-only now, settings, revision.
\* obs counts, per session, the signals the handlers raise (alarm sounds,
\* registered hits, launches, saved shots) and notes whether a sample other
\* than "rest" was delivered; it is not read by the program.
\* twin is a second copy of the program state, used only when one recorded
\* trace is replayed under two settings, or the vector given to the two
\* grip remaps; otherwise it stays null.
\* ------------------------------------------------------------------------
VARIABLES revision, settings, now, currentState, ballPositionSet, swingData,
          swingTimer, swingRecorder, lastShot, clubTipTracking, imuData,
          ballFlight, setBallBtnDisabled, imuPermissionGranted, lastRenderTime,
          obs, lastEvent, ticks, twin

vars == <<revision, settings, now, currentState, ballPositionSet, swingData,
          swingTimer, swingRecorder, lastShot, clubTipTracking, imuData,
          ballFlight, setBallBtnDisabled, imuPermissionGranted, lastRenderTime,
          obs, lastEvent, ticks, twin>>

World ==
    [revision |-> revision, settings |-> settings, now |-> now,
     currentState |-> currentState, ballPositionSet |-> ballPositionSet,
     swingData |-> swingData, swingTimer |-> swingTimer,
     swingRecorder |-> swingRecorder, lastShot |-> lastShot,
     clubTipTracking |-> clubTipTracking, imuData |-> imuData,
     ballFlight |-> ballFlight, setBallBtnDisabled |-> setBallBtnDisabled,
     obs |-> obs]

\* no recording in progress (swingRecorder.currentRecording = null)
NoRecording == [active |-> FALSE, startTime |-> 0]

\* null, and a value that is not null
Null == <<>>
Some(v) == <<v>>

ZeroObs == [alarms |-> 0, hits |-> 0, launches |-> 0, saves |-> 0, moved |-> FALSE]

\* the counters stop at 3: more than one is already what the claims exclude
Bump(n) == IF n < 3 THEN n + 1 ELSE n

\* ------------------------------------------------------------------------
\* Game logic: tee-up and timeout
\* ------------------------------------------------------------------------
\* a variant that does not move on to SWINGING
startSwingDetection_staysBallSet(w) ==
    [w EXCEPT !.swingData.hitDetected = FALSE]

\* startSwingDetection
startSwingDetection(w) ==
    [w EXCEPT !.swingData.hitDetected = FALSE,
              !.currentState = SWINGING]

\* setBallPosition (game-logic.js 81-128, unnamed/part_000 112-163)
setBallPosition(w) ==
    LET ct == w.clubTipTracking
        w1 == [w EXCEPT
                 !.ballPositionSet = TRUE,
                 !.clubTipTracking.offset =
                     Vec(Add(ct.tipPosition.x, ct.offset.x),
                         Add(ct.tipPosition.y, ct.offset.y),
                         Add(ct.tipPosition.z, ct.offset.z)),
                 !.clubTipTracking.history = <<>>,
                 !.clubTipTracking.lastUpdateTime = w.now,
                 !.swingTimer = [startTime |-> w.now,
                                 timeRemaining |-> w.settings.swingTimeout,
                                 expired |-> FALSE],
                 !.currentState = BALL_SET_READY_TO_SWING,
                 !.setBallBtnDisabled = TRUE]
        w2 == IF w1.swingRecorder.isRecording
              THEN [w1 EXCEPT !.swingRecorder.currentRecording =
                                  [active |-> TRUE, startTime |-> w.now]]
              ELSE w1
    IN  startSwingDetection(w2)

\* a variant that shows the results screen instead of asking for a new tee-up
handleSwingTimeout_toResults(w) ==
    [w EXCEPT !.obs.alarms = Bump(@),
              !.currentState = SHOWING_RESULTS,
              !.ballPositionSet = FALSE,
              !.swingData.hitDetected = FALSE,
              !.setBallBtnDisabled = FALSE]

\* a variant in which the timeout also resets the tracker
handleSwingTimeout_resetsTracking(w) ==
    [w EXCEPT !.obs.alarms = Bump(@),
              !.swingRecorder.currentRecording = NoRecording,
              !.clubTipTracking = resetTracking,
              !.currentState = READY_TO_SET_BALL,
              !.ballPositionSet = FALSE,
              !.swingData.hitDetected = FALSE,
              !.setBallBtnDisabled = FALSE]

\* handleSwingTimeout
handleSwingTimeout(w) ==
    LET w1 == [w EXCEPT !.obs.alarms = Bump(@)]
        w2 == IF w1.swingRecorder.isRecording /\ w1.swingRecorder.currentRecording.active
              THEN [w1 EXCEPT !.swingRecorder.currentRecording = NoRecording]
              ELSE w1
    IN  [w2 EXCEPT !.currentState = READY_TO_SET_BALL,
                   !.ballPositionSet = FALSE,
                   !.swingData.hitDetected = FALSE,
                   !.setBallBtnDisabled = FALSE]

\* Math.max(0, x)
Max0(x) == IF x = NaN THEN NaN ELSE IF x < 0 THEN 0 ELSE x

\* checkSwingTimeout of game-logic.js 165-175.  It reads
\* swingTimer.swingTimeout, a property nothing ever sets: undefined - elapsed
\* is NaN, Math.max(0, NaN) is NaN, and NaN <= 0 is false.
checkSwingTimeout_named(w) ==
    IF w.swingTimer.expired THEN w
    ELSE LET elapsed == w.now - w.swingTimer.startTime
             undefinedSwingTimeout == NaN
             timeRemaining == Max0(Sub(undefinedSwingTimeout, elapsed))
             w1 == [w EXCEPT !.swingTimer.timeRemaining = timeRemaining]
         IN  IF Le(timeRemaining, 0)
             THEN handleSwingTimeout([w1 EXCEPT !.swingTimer.expired = TRUE])
             ELSE w1

\* checkSwingTimeout of unnamed/part_000 199-209
checkSwingTimeout_unnamed(w) ==
    IF w.swingTimer.expired THEN w
    ELSE LET elapsed == w.now - w.swingTimer.startTime
             timeRemaining == Max0(Sub(w.settings.swingTimeout, elapsed))
             w1 == [w EXCEPT !.swingTimer.timeRemaining = timeRemaining]
         IN  IF Le(timeRemaining, 0)
             THEN handleSwingTimeout([w1 EXCEPT !.swingTimer.expired = TRUE])
             ELSE w1

checkSwingTimeout(w) ==
    IF w.revision = NAMED THEN checkSwingTimeout_named(w) ELSE checkSwingTimeout_unnamed(w)

\* ------------------------------------------------------------------------
\* Game logic: impact velocity and launch
\* ------------------------------------------------------------------------
\* Math.sin and Math.cos of the loft angle, on the angles the model uses
SinLoft(deg) ==
    CASE deg = 0 -> 0 [] deg = F(25) -> 423 [] deg = F(45) -> 707 [] OTHER -> F(1)
CosLoft(deg) ==
    CASE deg = 0 -> F(1) [] deg = F(25) -> 906 [] deg = F(45) -> 707 [] OTHER -> 0

\* the fallback of both revisions: 5 x the raw acceleration
FallbackVelocity(imu) ==
    Vec(Mul(imu.acceleration.x, F(5)),
        Mul(imu.acceleration.y, F(5)),
        Mul(imu.acceleration.z, F(5)))

\* a variant that takes the two newest samples
HistoryVelocity_adjacent(history) ==
    LET current == history[Len(history)]
        previous == history[Len(history) - 1]
        dt == current.timestamp - previous.timestamp
    IN  Vec(Div(Sub(current.position.x, previous.position.x), dt),
            Div(Sub(current.position.y, previous.position.y), dt),
            Div(Sub(current.position.z, previous.position.z), dt))

\* v = (posNow - posThen) / ((tNow - tThen) / 1000) of the newest and the
\* 5th-newest sample
HistoryVelocity(history) ==
    LET current == history[Len(history)]
        previous == history[Len(history) - 4]
        dt == current.timestamp - previous.timestamp
    IN  Vec(Div(Sub(current.position.x, previous.position.x), dt),
            Div(Sub(current.position.y, previous.position.y), dt),
            Div(Sub(current.position.z, previous.position.z), dt))

HistoryDt(history) ==
    history[Len(history)].timestamp - history[Len(history) - 4].timestamp

\* game-logic.js 321-332: the remap of the velocity for the edge-first grip
EdgeRemapVelocity(v) == Vec(v.y, Neg(v.z), v.x)

\* a variant of the loft transform that keeps the sign of the downswing
LoftedVy_signed(v, cfg) ==
    IF Lt(v.y, 0)
    THEN Add(Mul(Sqrt(Add(Mul(v.x, v.x), Mul(v.z, v.z))), SinLoft(cfg.loftAngle)),
             Mul(v.y, CosLoft(cfg.loftAngle)))
    ELSE v.y

\* the loft transform of both revisions
LoftedVy(v, cfg) ==
    LET horizontalSpeed == Sqrt(Add(Mul(v.x, v.x), Mul(v.z, v.z)))
    IN  IF Lt(v.y, 0)
        THEN Add(Mul(horizontalSpeed, SinLoft(cfg.loftAngle)),
                 Mul(Abs(v.y), CosLoft(cfg.loftAngle)))
        ELSE v.y

\* (clubWeight / 200) * [leverEffect 1.0 *] impactPower
TotalScale(cfg) == Mul(Div(cfg.clubWeight, F(200)), cfg.impactPower)

\* calculateImpactVelocity of game-logic.js 284-388
calculateImpactVelocity_named(ct, imu, cfg) ==
    IF Len(ct.history) < 5 THEN FallbackVelocity(imu)
    ELSE IF HistoryDt(ct.history) = 0 THEN ZeroVec
    ELSE LET raw == HistoryVelocity(ct.history)
             v == IF cfg.phoneOrientation = "edge" THEN EdgeRemapVelocity(raw) ELSE raw
             vyLofted == LoftedVy(v, cfg)
             totalScale == TotalScale(cfg)
             finalVz == Abs(Mul(v.z, totalScale))
         IN  Vec(Mul(v.x, totalScale), Mul(vyLofted, totalScale), finalVz)

\* calculateImpactVelocity of unnamed/part_000 323-394
calculateImpactVelocity_unnamed(ct, imu, cfg) ==
    IF Len(ct.history) < 5 THEN FallbackVelocity(imu)
    ELSE IF HistoryDt(ct.history) = 0 THEN ZeroVec
    ELSE LET v == HistoryVelocity(ct.history)
             vyLofted == LoftedVy(v, cfg)
             totalScale == TotalScale(cfg)
             finalVz == Abs(Mul(v.z, totalScale))
         IN  Vec(Mul(Neg(v.x), totalScale), Mul(vyLofted, totalScale), finalVz)

calculateImpactVelocity(w) ==
    IF w.revision = NAMED
    THEN calculateImpactVelocity_named(w.clubTipTracking, w.imuData, w.settings)
    ELSE calculateImpactVelocity_unnamed(w.clubTipTracking, w.imuData, w.settings)

\* the spin launchBall derives from the launch velocity (both revisions)
LaunchSpin(v, cfg) ==
    LET ballRadius == Div(Div(cfg.ballDiameter, F(100)), F(2))
    IN  IF Gt(ballRadius, 0) /\ isFinite(v.x) /\ isFinite(v.y) /\ isFinite(v.z)
        THEN LET sidespinRate == Mul(Neg(Div(v.x, ballRadius)), 20)
                 backspinRate == Mul(Div(v.y, ballRadius), 50)
             IN  Vec(IF isFinite(backspinRate) THEN backspinRate ELSE 0,
                     IF isFinite(sidespinRate) THEN sidespinRate ELSE 0,
                     0)
        ELSE ZeroVec

\* the launch velocity: impact velocity x 45.9 / ballWeight
LaunchVelocity(initialVelocity, cfg) ==
    LET ballWeightFactor == Div(45900, cfg.ballWeight)
    IN  Vec(Mul(initialVelocity.x, ballWeightFactor),
            Mul(initialVelocity.y, ballWeightFactor),
            Mul(initialVelocity.z, ballWeightFactor))

\* launchBall of game-logic.js 393-461: ballFlight.initialSpin is not written
launchBall_named(w, initialVelocity) ==
    LET v == LaunchVelocity(initialVelocity, w.settings)
        spin == LaunchSpin(v, w.settings)
    IN  [w EXCEPT !.ballFlight.spin = spin,
                  !.ballFlight.position = ZeroVec,
                  !.ballFlight.velocity = v,
                  !.ballFlight.flying = TRUE,
                  !.ballFlight.maxHeight = 0,
                  !.ballFlight.trajectory = <<ZeroVec>>,
                  !.lastShot.velocity = Some(v),
                  !.lastShot.spin = Some(spin),
                  !.obs.launches = Bump(@)]

\* launchBall of unnamed/part_000 400-448
launchBall_unnamed(w, initialVelocity) ==
    LET v == LaunchVelocity(initialVelocity, w.settings)
        spin == LaunchSpin(v, w.settings)
    IN  [w EXCEPT !.ballFlight.spin = spin,
                  !.ballFlight.initialSpin = spin,
                  !.ballFlight.position = ZeroVec,
                  !.ballFlight.velocity = v,
                  !.ballFlight.flying = TRUE,
                  !.ballFlight.maxHeight = 0,
                  !.ballFlight.trajectory = <<ZeroVec>>,
                  !.lastShot.velocity = Some(v),
                  !.lastShot.spin = Some(spin),
                  !.obs.launches = Bump(@)]

launchBall(w, initialVelocity) ==
    IF w.revision = NAMED THEN launchBall_named(w, initialVelocity)
    ELSE launchBall_unnamed(w, initialVelocity)

\* ------------------------------------------------------------------------
\* Game logic: hit detection
\* ------------------------------------------------------------------------
\* a variant that launches without latching the hit or leaving SWINGING
registerBallHit_noLatch(w) ==
    LET iv == calculateImpactVelocity(w)
    IN  launchBall([w EXCEPT !.swingData.impactVelocity = iv,
                             !.obs.hits = Bump(@)], iv)

\* registerBallHit up to the change of state: the hit is latched with its
\* impact velocity iv and a recording in progress is closed
RecordHit(w, iv) ==
    LET w1 == [w EXCEPT !.swingData.hitDetected = TRUE,
                        !.swingData.impactVelocity = iv,
                        !.lastShot.impactSpeed = Norm3(iv),
                        !.obs.hits = Bump(@)]
    IN  IF w1.swingRecorder.isRecording /\ w1.swingRecorder.currentRecording.active
        THEN [w1 EXCEPT
                !.swingRecorder.recordedSwings =
                    Append(@, [startTime |-> w1.swingRecorder.currentRecording.startTime,
                               impactVelocity |-> iv,
                               distance |-> 0,
                               maxHeight |-> 0]),
                !.swingRecorder.currentRecording = NoRecording]
        ELSE w1

\* launchBall(swingData.impactVelocity)
LaunchFromImpact(w) == launchBall(w, w.swingData.impactVelocity)

\* registerBallHit (game-logic.js 244-279, unnamed/part_000 270-305)
registerBallHit(w) ==
    LaunchFromImpact([RecordHit(w, calculateImpactVelocity(w))
                         EXCEPT !.currentState = BALL_FLYING])

\* history.slice(-20)
Last20(h) == IF Len(h) <= 20 THEN h ELSE SubSeq(h, Len(h) - 19, Len(h))

\* Math.max(...distances): -Infinity for no argument, NaN if any is NaN
RECURSIVE MaxDistance(_)
MaxDistance(h) ==
    IF h = <<>> THEN NegInfinity
    ELSE LET d == Norm3(Head(h).position)
             m == MaxDistance(Tail(h))
         IN  IF d = NaN \/ m = NaN THEN NaN ELSE IF d > m THEN d ELSE m

\* a variant that asks for a slow club instead of a fast one
HitConditions_slowOnly(w) ==
    /\ Lt(Norm3(w.clubTipTracking.tipPosition), Div(w.settings.hitZoneDiameter, F(200)))
    /\ Lt(Norm3(w.imuData.acceleration), w.settings.minSwingSpeed)
    /\ Gt(MaxDistance(Last20(w.clubTipTracking.history)), 150)

\* a variant without the backswing condition
HitConditions_noBackswing(w) ==
    /\ Lt(Norm3(w.clubTipTracking.tipPosition), Div(w.settings.hitZoneDiameter, F(200)))
    /\ Gt(Norm3(w.imuData.acceleration), w.settings.minSwingSpeed)

\* the three conditions of detectBallHit (both revisions)
HitConditions(w) ==
    LET tipDistance == Norm3(w.clubTipTracking.tipPosition)
        hitThreshold == Div(w.settings.hitZoneDiameter, F(200))
        totalAcceleration == Norm3(w.imuData.acceleration)
    IN  /\ Lt(tipDistance, hitThreshold)
        /\ Gt(totalAcceleration, w.settings.minSwingSpeed)
        /\ Gt(MaxDistance(Last20(w.clubTipTracking.history)), 150)

\* detectBallHit (game-logic.js 200-242, unnamed/part_000 235-268)
detectBallHit(w) ==
    IF w.swingData.hitDetected THEN w
    ELSE IF HitConditions(w) THEN registerBallHit(w)
    ELSE w

\* a variant that looks for a hit whatever the timer says
recordSwingMotion_ignoresExpiry(w) == detectBallHit(checkSwingTimeout(w))

\* recordSwingMotion (swingData.recordedMotion, which nothing reads, is left out)
recordSwingMotion(w) ==
    LET w1 == checkSwingTimeout(w)
    IN  IF ~w1.swingTimer.expired THEN detectBallHit(w1) ELSE w1

\* ------------------------------------------------------------------------
\* Flight simulator (physics.js)
\* ------------------------------------------------------------------------
\* the ballFlight object as declared, and as resetBallFlight leaves it
resetBallFlight ==
    [position |-> ZeroVec,
     velocity |-> ZeroVec,
     spin |-> ZeroVec,
     initialSpin |-> ZeroVec,
     flying |-> FALSE,
     landingDistance |-> 0,
     maxHeight |-> 0,
     trajectory |-> <<>>]

\* settings.spinEffect * 0.00001 * x
TimesSpinFactor(spinEffect, x) ==
    LET p == Mul(spinEffect, x)
    IN  IF isFinite(p) THEN SignInt(p) * (AbsInt(p) \div (100 * Scale)) ELSE p

\* v += a * dt when a is finite
AddIfFinite(v, a, dt) == IF isFinite(a) THEN Add(v, Mul(a, dt)) ELSE v

\* a variant with twice the gravity and neither Magnus force nor drag
FlightVelocity_heavy(bf, cfg, dt) ==
    Vec(bf.velocity.x,
        Add(bf.velocity.y, Mul(Neg(2 * cfg.gravity), dt)),
        bf.velocity.z)

\* lines 56-100: gravity, Magnus force with spin decay, drag
FlightVelocity(bf, cfg, dt) ==
    LET vy1 == Add(bf.velocity.y, Mul(Neg(cfg.gravity), dt))
        v1 == Vec(bf.velocity.x, vy1, bf.velocity.z)
        useSpin == Gt(cfg.spinEffect, 0)
        magnusX == TimesSpinFactor(cfg.spinEffect,
                       Sub(Mul(bf.spin.y, v1.z), Mul(bf.spin.z, v1.y)))
        magnusY == TimesSpinFactor(cfg.spinEffect,
                       Sub(Mul(bf.spin.z, v1.x), Mul(bf.spin.x, v1.z)))
        magnusZ == TimesSpinFactor(cfg.spinEffect,
                       Sub(Mul(bf.spin.x, v1.y), Mul(bf.spin.y, v1.x)))
        v2 == IF useSpin
              THEN Vec(AddIfFinite(v1.x, magnusX, dt),
                       AddIfFinite(v1.y, magnusY, dt),
                       AddIfFinite(v1.z, magnusZ, dt))
              ELSE v1
        dragFactor == Mul(cfg.airResistance, 10)
        keep == Sub(F(1), dragFactor)
    IN  IF Gt(cfg.airResistance, 0)
        THEN Vec(Mul(v2.x, keep),
                 IF Gt(v2.y, 0) THEN Mul(v2.y, keep) ELSE v2.y,
                 Mul(v2.z, keep))
        ELSE v2

\* a variant in which the spin decays whatever the spin effect
FlightSpin_alwaysDecays(bf, cfg) ==
    Vec(Mul(bf.spin.x, 980), Mul(bf.spin.y, 980), Mul(bf.spin.z, 980))

\* spin *= 0.98 per frame when the spin effect is on
FlightSpin(bf, cfg) ==
    IF Gt(cfg.spinEffect, 0)
    THEN Vec(Mul(bf.spin.x, 980), Mul(bf.spin.y, 980), Mul(bf.spin.z, 980))
    ELSE bf.spin

\* a variant of the landing that stops the ball and keeps the state
Land_keepsState(w) ==
    [w EXCEPT !.ballFlight.position.y = 0,
              !.ballFlight.flying = FALSE,
              !.obs.saves = Bump(@)]

\* lines 151-203: the landing
Land(w) ==
    LET bf == [w.ballFlight EXCEPT
                 !.position.y = 0,
                 !.flying = FALSE,
                 !.landingDistance = Hypot4(w.ballFlight.position.x, 0,
                                            w.ballFlight.position.z, 0)]
        swings == w.swingRecorder.recordedSwings
        n == Len(swings)
        swings1 == IF n > 0 /\ swings[n].distance = 0
                   THEN [swings EXCEPT ![n].distance = bf.landingDistance,
                                       ![n].maxHeight = bf.maxHeight]
                   ELSE swings
    IN  [w EXCEPT !.ballFlight = bf,
                  !.swingRecorder.recordedSwings = swings1,
                  !.lastShot.distance = bf.landingDistance,
                  !.lastShot.maxHeight = bf.maxHeight,
                  !.lastShot.impactSpeed = Norm3(w.swingData.impactVelocity),
                  !.lastShot.velocity = Some(w.swingData.impactVelocity),
                  !.lastShot.spin = Some(bf.initialSpin),
                  !.obs.saves = Bump(@),
                  !.currentState = SHOWING_RESULTS]

\* a variant that overwrites the newest trajectory point
MoveBall_overwriting(bf, v, dt, cfg) ==
    LET pos == Vec(Add(bf.position.x, Mul(v.x, dt)),
                   Add(bf.position.y, Mul(v.y, dt)),
                   Add(bf.position.z, Mul(v.z, dt)))
    IN  [bf EXCEPT !.velocity = v,
                   !.spin = FlightSpin(bf, cfg),
                   !.position = pos,
                   !.trajectory = [@ EXCEPT ![Len(@)] = pos],
                   !.maxHeight = IF Gt(pos.y, @) THEN pos.y ELSE @]

\* lines 102-150: the ball moves with the velocity v for dt
MoveBall(bf, v, dt, cfg) ==
    LET pos == Vec(Add(bf.position.x, Mul(v.x, dt)),
                   Add(bf.position.y, Mul(v.y, dt)),
                   Add(bf.position.z, Mul(v.z, dt)))
    IN  [bf EXCEPT !.velocity = v,
                   !.spin = FlightSpin(bf, cfg),
                   !.position = pos,
                   !.trajectory = Append(@, pos),
                   !.maxHeight = IF Gt(pos.y, @) THEN pos.y ELSE @]

\* a variant that lands as soon as the ball is at or under the ground
LandIfDown_anyVelocity(w) ==
    IF Le(w.ballFlight.position.y, 0) THEN Land(w) ELSE w

\* line 151: the ball lands when it is at or under the ground, going down
LandIfDown(w) ==
    IF Le(w.ballFlight.position.y, 0) /\ Lt(w.ballFlight.velocity.y, 0) THEN Land(w) ELSE w

\* a variant that integrates whatever the time since the last frame
updateBallPhysics_noStaleGuard(w, deltaTime) ==
    IF ~w.ballFlight.flying THEN w
    ELSE LandIfDown([w EXCEPT !.ballFlight =
             MoveBall(@, FlightVelocity(@, w.settings, deltaTime), deltaTime, w.settings)])

\* updateBallPhysics(deltaTime), deltaTime in milliseconds
updateBallPhysics(w, deltaTime) ==
    IF ~w.ballFlight.flying THEN w
    ELSE IF deltaTime > 100 THEN w
    ELSE LandIfDown([w EXCEPT !.ballFlight =
             MoveBall(@, FlightVelocity(@, w.settings, deltaTime), deltaTime, w.settings)])

\* ------------------------------------------------------------------------
\* Reset, sensor events, render loop, buttons
\* ------------------------------------------------------------------------
\* a variant that forgets resetTracking()
resetGame_keepsTracker(w) ==
    [w EXCEPT !.ballPositionSet = FALSE,
              !.swingData.hitDetected = FALSE,
              !.swingTimer.expired = FALSE,
              !.swingTimer.timeRemaining = 0,
              !.ballFlight = resetBallFlight,
              !.currentState = READY_TO_SET_BALL,
              !.setBallBtnDisabled = FALSE]

\* resetGame (game-logic.js 466-491, unnamed/part_000 453-474)
resetGame(w) ==
    [w EXCEPT !.ballPositionSet = FALSE,
              !.swingData.hitDetected = FALSE,
              !.swingTimer.expired = FALSE,
              !.swingTimer.timeRemaining = 0,
              !.clubTipTracking = resetTracking,
              !.ballFlight = resetBallFlight,
              !.currentState = READY_TO_SET_BALL,
              !.setBallBtnDisabled = FALSE]

updateClubTipTracking(w) ==
    IF w.revision = NAMED
    THEN [w EXCEPT !.clubTipTracking =
             updateClubTipTracking_named(w.clubTipTracking, w.imuData, w.settings, w.now)]
    ELSE [w EXCEPT !.clubTipTracking =
             updateClubTipTracking_unnamed(w.clubTipTracking, w.imuData, w.settings,
                                           w.now, w.ballPositionSet)]

\* sensors.js 154-163: the tracker runs when the ball is set or in a swing
TrackIfBallSet(w) ==
    IF w.currentState = BALL_SET_READY_TO_SWING \/ w.currentState = SWINGING
    THEN updateClubTipTracking(w)
    ELSE w

\* sensors.js 165-168: the swing is recorded (timeout check, hit detection)
RecordIfSwinging(w) ==
    IF w.currentState = SWINGING THEN recordSwingMotion(w) ELSE w

\* handleDeviceMotion (sensors.js 114-169) for an event carrying the
\* acceleration a and the rotation rate r.  The state is read once, before
\* the tracker, which does not change it.
handleDeviceMotion(w, a, r) ==
    RecordIfSwinging(TrackIfBallSet(
        [w EXCEPT !.imuData.acceleration = a, !.imuData.rotationRate = r]))

\* handleDeviceOrientation (sensors.js 175-183)
handleDeviceOrientation(w, alpha) == [w EXCEPT !.imuData.alpha = alpha]

\* render(timestamp) (renderer.js 262-320): the state changes of a frame
render(w, deltaTime) ==
    IF w.currentState = BALL_SET_READY_TO_SWING \/ w.currentState = SWINGING
    THEN (IF w.ballPositionSet THEN checkSwingTimeout(w) ELSE w)
    ELSE IF w.currentState = BALL_FLYING THEN updateBallPhysics(w, deltaTime)
    ELSE w

\* the click handler of the record button (unnamed/part_004 68-84)
toggleRecording(w) ==
    IF ~w.swingRecorder.isRecording
    THEN [w EXCEPT !.swingRecorder.isRecording = TRUE]
    ELSE [w EXCEPT !.swingRecorder.isRecording = FALSE,
                   !.swingRecorder.currentRecording = NoRecording]

\* ------------------------------------------------------------------------
\* The program as a state machine
\* ------------------------------------------------------------------------
\* Bounds of the exploration
MaxTicks == 6

\* Date.now() when the page is loaded (any positive number)
Epoch == F(1)

\* time from one event to the next, and a pause in which no event is
\* delivered (the page is in the background), in milliseconds: the first
\* event after a pause arrives exactly swingTimeout after the pause began
EventStep == Scale \div 20
PauseStep == defaultSettings.swingTimeout - EventStep

\* devicemotion events the model delivers: acceleration (m/s^2) and rotation
\* rate (deg/s).  At EventStep, 200 deg/s is 10 degrees, which carries the
\* tip of a 1.2 m club 0.21 m.
NoRotation == [alpha |-> 0, beta |-> 0, gamma |-> 0]
Samples ==
    { [name |-> "rest", a |-> ZeroVec, r |-> NoRotation],
      [name |-> "back", a |-> Vec(0, 0 - F(3), 0),
       r |-> [alpha |-> F(200), beta |-> 0, gamma |-> 0]],
      [name |-> "fwd", a |-> Vec(0, 0 - F(6), 0 - F(3)),
       r |-> [alpha |-> 0 - F(200), beta |-> 0, gamma |-> 0]],
      [name |-> "tap", a |-> Vec(0, 0 - F(6), 0 - F(3)), r |-> NoRotation] }

SampleNames == {s.name : s \in Samples}

\* deviceorientation events: a compass heading, or none
Headings == {NoHeading, 0}

Builds ==
    { [revision |-> NAMED, settings |-> defaultSettings],
      [revision |-> NAMED, settings |-> [defaultSettings EXCEPT !.phoneOrientation = "screen"]],
      [revision |-> UNNAMED, settings |-> defaultSettings] }

Init ==
    /\ \E b \in Builds : revision = b.revision /\ settings = b.settings
    /\ now = Epoch
    /\ currentState = READY_TO_SET_BALL
    /\ ballPositionSet = FALSE
    /\ swingData = [hitDetected |-> FALSE, impactVelocity |-> ZeroVec]
    /\ swingTimer = [startTime |-> 0, timeRemaining |-> 0, expired |-> FALSE]
    /\ swingRecorder = [isRecording |-> FALSE, recordedSwings |-> <<>>,
                        currentRecording |-> NoRecording]
    /\ lastShot = [distance |-> 0, maxHeight |-> 0, impactSpeed |-> 0,
                   velocity |-> Null, spin |-> Null]
    /\ clubTipTracking = resetTracking
    /\ imuData = [acceleration |-> ZeroVec,
                  rotationRate |-> NoRotation,
                  alpha |-> 0]
    /\ ballFlight = resetBallFlight
    /\ setBallBtnDisabled = FALSE
    /\ imuPermissionGranted = FALSE
    /\ lastRenderTime = 0
    /\ obs = ZeroObs
    /\ lastEvent = [name |-> "load", from |-> READY_TO_SET_BALL]
    /\ ticks = 0
    /\ twin = Null

\* the state the handlers leave
Store(w) ==
    /\ currentState' = w.currentState
    /\ ballPositionSet' = w.ballPositionSet
    /\ swingData' = w.swingData
    /\ swingTimer' = w.swingTimer
    /\ swingRecorder' = w.swingRecorder
    /\ lastShot' = w.lastShot
    /\ clubTipTracking' = w.clubTipTracking
    /\ imuData' = w.imuData
    /\ ballFlight' = w.ballFlight
    /\ setBallBtnDisabled' = w.setBallBtnDisabled
    /\ obs' = w.obs
    /\ UNCHANGED <<revision, settings>>

\* the state the handlers leave when the program runs alone (no replay)
Commit(w) == Store(w) /\ UNCHANGED twin

At(t) == [World EXCEPT !.now = t]

\* click on "Tee Up" (unnamed/part_004 56-62): requestIMUPermission registers
\* the sensor listeners, onIMUInitialized sets the state, then setBallPosition
TeeUp ==
    /\ ~setBallBtnDisabled
    /\ ticks < MaxTicks
    /\ ticks' = ticks + 1
    /\ Commit(setBallPosition([World EXCEPT !.currentState = READY_TO_SET_BALL,
                                            !.obs = ZeroObs]))
    /\ imuPermissionGranted' = TRUE
    /\ lastEvent' = [name |-> "TeeUp", from |-> currentState]
    /\ UNCHANGED <<now, lastRenderTime>>

\* a devicemotion event, EventStep after the previous event
SensorEvent(s) ==
    /\ imuPermissionGranted
    /\ ticks < MaxTicks
    /\ now' = now + EventStep
    /\ Commit(handleDeviceMotion(
           [At(now + EventStep) EXCEPT !.obs.moved = @ \/ s.name # "rest"], s.a, s.r))
    /\ lastEvent' = [name |-> s.name, from |-> currentState]
    /\ ticks' = ticks + 1
    /\ UNCHANGED <<imuPermissionGranted, lastRenderTime>>

\* a deviceorientation event
OrientationEvent(h) ==
    /\ imuPermissionGranted
    /\ h # imuData.alpha
    /\ ticks < MaxTicks
    /\ ticks' = ticks + 1
    /\ Commit(handleDeviceOrientation(World, h))
    /\ lastEvent' = [name |-> "orientation", from |-> currentState]
    /\ UNCHANGED <<now, imuPermissionGranted, lastRenderTime>>

\* an animation frame, EventStep after the previous event
RenderFrame ==
    /\ ticks < MaxTicks
    /\ now' = now + EventStep
    /\ lastRenderTime' = now + EventStep
    /\ Commit(render(At(now + EventStep), now + EventStep - lastRenderTime))
    /\ lastEvent' = [name |-> "render", from |-> currentState]
    /\ ticks' = ticks + 1
    /\ UNCHANGED imuPermissionGranted

\* no event is delivered for PauseStep (page in the background)
Pause ==
    /\ ticks < MaxTicks
    /\ now' = now + PauseStep
    /\ ticks' = ticks + 1
    /\ lastEvent' = [name |-> "pause", from |-> currentState]
    /\ UNCHANGED <<revision, settings, currentState, ballPositionSet, swingData,
                   swingTimer, swingRecorder, lastShot, clubTipTracking, imuData,
                   ballFlight, setBallBtnDisabled, imuPermissionGranted,
                   lastRenderTime, obs, twin>>

\* click on "Reset" (enabled by onIMUInitialized, main.js 106-109)
ResetGame ==
    /\ imuPermissionGranted
    /\ ticks < MaxTicks
    /\ ticks' = ticks + 1
    /\ Commit(resetGame(World))
    /\ lastEvent' = [name |-> "ResetGame", from |-> currentState]
    /\ UNCHANGED <<now, imuPermissionGranted, lastRenderTime>>

\* click on "Record Swing"
ToggleRecording ==
    /\ ticks < MaxTicks
    /\ ticks' = ticks + 1
    /\ Commit(toggleRecording(World))
    /\ lastEvent' = [name |-> "ToggleRecording", from |-> currentState]
    /\ UNCHANGED <<now, imuPermissionGranted, lastRenderTime>>

Next ==
    \/ TeeUp
    \/ \E s \in Samples : SensorEvent(s)
    \/ \E h \in Headings : OrientationEvent(h)
    \/ RenderFrame
    \/ Pause
    \/ ResetGame
    \/ ToggleRecording

Spec == Init /\ [][Next]_vars

\* ------------------------------------------------------------------------
\* The orientation filter on its own: any unit quaternion, any input
\* ------------------------------------------------------------------------
MaxFilterUpdates == 2

\* orientations the filter starts from: level, a quarter turn about x, a
\* quarter turn about z, a half turn about x
FilterQuats ==
    { IdentityQuat, Quat(707, 707, 0, 0), Quat(707, 0, 0, 707), Quat(0, F(1), 0, 0) }

\* accelerometer readings: none, gravity along z, along -y, oblique
FilterAccels ==
    { ZeroVec, Vec(0, 0, 9810), Vec(0, 0 - F(3), 0), Vec(F(3), 0, F(4)) }

FilterRates ==
    { NoRotation,
      [alpha |-> F(200), beta |-> 0, gamma |-> 0],
      [alpha |-> 0, beta |-> F(90), gamma |-> 0 - F(45)] }

FilterHeadings == {NoHeading, F(90)}

\* dt in milliseconds, none above 0.1 s
FilterSteps == {EventStep, 2 * EventStep}

InitFilter ==
    /\ revision \in {NAMED, UNNAMED}
    /\ settings = defaultSettings
    /\ now = Epoch
    /\ currentState = READY_TO_SET_BALL
    /\ ballPositionSet = FALSE
    /\ swingData = [hitDetected |-> FALSE, impactVelocity |-> ZeroVec]
    /\ swingTimer = [startTime |-> 0, timeRemaining |-> 0, expired |-> FALSE]
    /\ swingRecorder = [isRecording |-> FALSE, recordedSwings |-> <<>>,
                        currentRecording |-> NoRecording]
    /\ lastShot = [distance |-> 0, maxHeight |-> 0, impactSpeed |-> 0,
                   velocity |-> Null, spin |-> Null]
    /\ \E q \in FilterQuats : clubTipTracking = [resetTracking EXCEPT !.quaternion = q]
    /\ imuData = [acceleration |-> ZeroVec, rotationRate |-> NoRotation, alpha |-> 0]
    /\ ballFlight = resetBallFlight
    /\ setBallBtnDisabled = FALSE
    /\ imuPermissionGranted = TRUE
    /\ lastRenderTime = 0
    /\ obs = ZeroObs
    /\ lastEvent = [name |-> "load", from |-> READY_TO_SET_BALL]
    /\ ticks = 0
    /\ twin = Null

\* one call madgwickFilterUpdate(r, a, dt, m) on the current quaternion; the
\* input is kept in imuData
FilterUpdate(a, r, h, dt) ==
    /\ ticks < MaxFilterUpdates
    /\ imuData' = [acceleration |-> a, rotationRate |-> r, alpha |-> h]
    /\ clubTipTracking' =
           [clubTipTracking EXCEPT !.quaternion =
               madgwickFilterUpdate(@, r.alpha, r.beta, r.gamma, a.x, a.y, a.z, dt,
                                    MagOf(h).x, MagOf(h).y, MagOf(h).z)]
    /\ lastEvent' = [name |-> "filter", from |-> currentState]
    /\ ticks' = ticks + 1
    /\ now' = now + dt
    /\ UNCHANGED <<revision, settings, currentState, ballPositionSet, swingData,
                   swingTimer, swingRecorder, lastShot, ballFlight,
                   setBallBtnDisabled, imuPermissionGranted, lastRenderTime, obs,
                   twin>>

NextFilter ==
    \E a \in FilterAccels, r \in FilterRates, h \in FilterHeadings, dt \in FilterSteps :
        FilterUpdate(a, r, h, dt)

SpecFilter == InitFilter /\ [][NextFilter]_vars

\* ------------------------------------------------------------------------
\* The game with the phone lying flat for a sample
\* ------------------------------------------------------------------------
\* a devicemotion event of a phone at rest on its back: gravity along z
FlatSample == [name |-> "flat", a |-> Vec(0, 0, 9810), r |-> NoRotation]

SpecFlat ==
    Init /\ [][\/ TeeUp
              \/ \E s \in Samples \cup {FlatSample} : SensorEvent(s)
              \/ RenderFrame
              \/ Pause
              \/ ResetGame]_vars

\* ------------------------------------------------------------------------
\* One recorded trace replayed under two settings
\* ------------------------------------------------------------------------
MaxReplay == 4

\* the program as loaded, and as setBallPosition leaves it at Epoch
Loaded(rev, cfg) ==
    [revision |-> rev, settings |-> cfg, now |-> Epoch,
     currentState |-> READY_TO_SET_BALL, ballPositionSet |-> FALSE,
     swingData |-> [hitDetected |-> FALSE, impactVelocity |-> ZeroVec],
     swingTimer |-> [startTime |-> 0, timeRemaining |-> 0, expired |-> FALSE],
     swingRecorder |-> [isRecording |-> FALSE, recordedSwings |-> <<>>,
                        currentRecording |-> NoRecording],
     lastShot |-> [distance |-> 0, maxHeight |-> 0, impactSpeed |-> 0,
                   velocity |-> Null, spin |-> Null],
     clubTipTracking |-> resetTracking,
     imuData |-> [acceleration |-> ZeroVec, rotationRate |-> NoRotation, alpha |-> 0],
     ballFlight |-> resetBallFlight, setBallBtnDisabled |-> FALSE,
     obs |-> ZeroObs]

TeedUp(rev, cfg) == setBallPosition(Loaded(rev, cfg))

\* the variables hold the program state w
Holds(w) ==
    /\ revision = w.revision
    /\ settings = w.settings
    /\ now = w.now
    /\ currentState = w.currentState
    /\ ballPositionSet = w.ballPositionSet
    /\ swingData = w.swingData
    /\ swingTimer = w.swingTimer
    /\ swingRecorder = w.swingRecorder
    /\ lastShot = w.lastShot
    /\ clubTipTracking = w.clubTipTracking
    /\ imuData = w.imuData
    /\ ballFlight = w.ballFlight
    /\ setBallBtnDisabled = w.setBallBtnDisabled
    /\ obs = w.obs

\* the settings of the hit detector: minSwingSpeed (m/s^2), hitZoneDiameter (cm)
Sensitivity(cfg, s, d) == [cfg EXCEPT !.minSwingSpeed = s, !.hitZoneDiameter = d]

ReplaySpeeds == {F(5), F(8)}
ReplayZones == {F(10), F(30)}

\* recorded tip positions: 0.2 m behind the ball, 0.12 m and 0.02 m in front
ReplayTips == {Vec(0, 0, 0 - 200), Vec(0, 0, 120), Vec(0, 0, 20)}

\* recorded accelerations, of magnitude 3, 6.7 and 9 m/s^2
ReplayAccels == {Vec(0, 0 - F(3), 0), Vec(0, 0 - F(6), 0 - F(3)), Vec(0, 0 - F(9), 0)}

InitReplay ==
    /\ \E rev \in {NAMED, UNNAMED}, s \in ReplaySpeeds, d \in ReplayZones :
         /\ Holds(TeedUp(rev, Sensitivity(defaultSettings, s, d)))
         /\ \E s2 \in ReplaySpeeds, d2 \in ReplayZones :
              /\ s2 <= s
              /\ d2 >= d
              /\ twin = TeedUp(rev, Sensitivity(defaultSettings, s2, d2))
    /\ imuPermissionGranted = TRUE
    /\ lastRenderTime = 0
    /\ lastEvent = [name |-> "TeeUp", from |-> READY_TO_SET_BALL]
    /\ ticks = 0

\* the recorded sample (tip position p, acceleration a, time t) as the
\* tracker left it, handed to recordSwingMotion while the session is open
ReplayInto(w, p, a, t) ==
    IF w.currentState = SWINGING
    THEN recordSwingMotion(
             [w EXCEPT !.now = t,
                       !.imuData.acceleration = a,
                       !.clubTipTracking.tipPosition = p,
                       !.clubTipTracking.history =
                           Append(@, [position |-> p, timestamp |-> t])])
    ELSE [w EXCEPT !.now = t]

\* the next sample of the trace, given to both copies
ReplaySample(p, a) ==
    /\ ticks < MaxReplay
    /\ ticks' = ticks + 1
    /\ now' = now + EventStep
    /\ Store(ReplayInto(World, p, a, now + EventStep))
    /\ twin' = ReplayInto(twin, p, a, now + EventStep)
    /\ lastEvent' = [name |-> "replay", from |-> currentState]
    /\ UNCHANGED <<imuPermissionGranted, lastRenderTime>>

\* a gap in the trace: the next sample is PauseStep later
ReplayGap ==
    /\ ticks < MaxReplay
    /\ ticks' = ticks + 1
    /\ now' = now + PauseStep
    /\ lastEvent' = [name |-> "gap", from |-> currentState]
    /\ UNCHANGED <<revision, settings, currentState, ballPositionSet, swingData,
                   swingTimer, swingRecorder, lastShot, clubTipTracking, imuData,
                   ballFlight, setBallBtnDisabled, imuPermissionGranted,
                   lastRenderTime, obs, twin>>

NextReplay ==
    \/ \E p \in ReplayTips, a \in ReplayAccels : ReplaySample(p, a)
    \/ ReplayGap

SpecReplay == InitReplay /\ [][NextReplay]_vars

\* ------------------------------------------------------------------------
\* One swing from the impact to the landing
\* ------------------------------------------------------------------------
MaxFlightTicks == 11
SkipWindow == 3

\* the settings as saveSettings stores them (parseFloat of the input
\* fields): the defaults, a zero ball weight or diameter, a ball of twice the
\* weight, no spin effect and no air resistance, a loft of 0 or 90 degrees
BallSettings(cfg) ==
    {cfg, [cfg EXCEPT !.ballWeight = 0], [cfg EXCEPT !.ballDiameter = 0],
     [cfg EXCEPT !.ballWeight = 91800],
     [cfg EXCEPT !.spinEffect = 0, !.airResistance = 0],
     [cfg EXCEPT !.loftAngle = 0], [cfg EXCEPT !.loftAngle = F(90)]}

\* a recorded swing path: n samples EventStep apart, the first at Epoch
SwingPath(tips) ==
    [i \in 1..Len(tips) |->
        [position |-> tips[i], timestamp |-> Epoch + (i - 1) * EventStep]]

\* the history as the tracker left it when the club reaches the ball: three
\* paths of five samples, one of two samples, and one whose samples share a
\* timestamp
SwingPaths ==
    { SwingPath(<<Vec(0, 100, 0 - 150), Vec(0, 80, 0 - 110), Vec(0, 50, 0 - 70),
                  Vec(0, 20, 0 - 30), Vec(0, 0, 0)>>),
      SwingPath(<<Vec(0, 0 - 160, 0 - 100), Vec(0, 0 - 120, 0 - 60),
                  Vec(10, 0 - 80, 0 - 20), Vec(10, 0 - 40, 20), Vec(20, 0, 50)>>),
      SwingPath(<<Vec(0, 160, 0), Vec(0, 140, 0), Vec(0, 130, 0), Vec(0, 110, 0),
                  Vec(0, 100, 0)>>),
      SwingPath(<<Vec(0, 200, 0 - 300), Vec(0, 0, 50)>>),
      [SwingPath(<<Vec(0, 200, 0 - 300), Vec(0, 150, 0 - 220), Vec(0, 100, 0 - 150),
                   Vec(0, 50, 0 - 70), Vec(0, 0, 0)>>)
          EXCEPT ![2].timestamp = Epoch, ![3].timestamp = Epoch,
                 ![4].timestamp = Epoch, ![5].timestamp = Epoch] }

\* the acceleration of the sample that reaches the ball: down and back at
\* 6.7 m/s^2, or forward at 5.5 m/s^2 and barely up
ImpactAccels == {Vec(0, 0 - F(6), 0 - F(3)), Vec(0, 98, 5500)}

\* the session is open and the tracker has just recorded the sample that
\* brings the club to the ball (sensors.js 161); recordSwingMotion is next
AtTheBall(w, path, a) ==
    [w EXCEPT !.now = path[Len(path)].timestamp,
              !.imuData.acceleration = a,
              !.clubTipTracking.tipPosition = path[Len(path)].position,
              !.clubTipTracking.lastUpdateTime = path[Len(path)].timestamp,
              !.clubTipTracking.history = path]

\* the recorder before the tee-up: off with nothing recorded, switched on,
\* or switched off again after a recorded shot that was reset in the air
Recorders ==
    { [isRecording |-> FALSE, recordedSwings |-> <<>>, currentRecording |-> NoRecording],
      [isRecording |-> TRUE, recordedSwings |-> <<>>, currentRecording |-> NoRecording],
      [isRecording |-> FALSE,
       recordedSwings |-> << [startTime |-> Epoch - 10 * EventStep,
                              impactVelocity |-> Vec(0, 0 - F(30), 0 - F(15)),
                              distance |-> 0,
                              maxHeight |-> 0] >>,
       currentRecording |-> NoRecording] }

InitFlight ==
    /\ \E b \in Builds, path \in SwingPaths, a \in ImpactAccels :
         \E cfg \in BallSettings(b.settings) :
            \E rec \in IF cfg = b.settings
                       THEN Recorders
                       ELSE {Loaded(b.revision, cfg).swingRecorder} :
               Holds(AtTheBall(setBallPosition([Loaded(b.revision, cfg)
                                                  EXCEPT !.swingRecorder = rec]),
                               path, a))
    /\ imuPermissionGranted = TRUE
    /\ lastRenderTime = now
    /\ lastEvent = [name |-> "TeeUp", from |-> READY_TO_SET_BALL]
    /\ ticks = 0
    /\ twin = Null

\* sensors.js 165-168: the sample is handed to recordSwingMotion
Impact ==
    /\ ticks = 0
    /\ ticks' = 1
    /\ Commit(RecordIfSwinging(World))
    /\ lastEvent' = [name |-> "impact", from |-> currentState]
    /\ UNCHANGED <<now, imuPermissionGranted, lastRenderTime>>

\* one frame of the render loop, deltaTime after the previous one
Frame(deltaTime) ==
    /\ ticks > 0
    /\ ticks < MaxFlightTicks
    /\ ticks' = ticks + 1
    /\ now' = now + deltaTime
    /\ lastRenderTime' = now + deltaTime
    /\ Commit(render(At(now + deltaTime), deltaTime))
    /\ lastEvent' = [name |-> "frame", from |-> currentState]
    /\ UNCHANGED imuPermissionGranted

\* frames at 20 and 10 per second, which updateBallPhysics integrates
FlightTick == \E deltaTime \in {50, 100} : ticks > 0 /\ Frame(deltaTime)

\* a frame after a stall of the page, which updateBallPhysics skips
SkippedTick == ticks < SkipWindow /\ Frame(150)

NextFlight == Impact \/ FlightTick \/ SkippedTick

\* The sample at the ball is handled, and requestAnimationFrame keeps
\* calling render (renderer.js 319); only the first SkipWindow frames can be
\* late, so the frames that keep coming are integrated ones.
SpecFlight ==
    InitFlight /\ [][NextFlight]_vars
    /\ WF_ticks(ticks < MaxFlightTicks /\ ticks' = ticks + 1)

\* ------------------------------------------------------------------------
\* A long session of the tracker
\* ------------------------------------------------------------------------
MaxTrackSamples == 24
FreeSamples == 3

\* devicemotion events at 10 per second, the slowest rate the tracker accepts
TrackStep == 100

InitTrack ==
    /\ \E b \in Builds : Holds(TeedUp(b.revision, b.settings))
    /\ imuPermissionGranted = TRUE
    /\ lastRenderTime = 0
    /\ lastEvent = [name |-> "TeeUp", from |-> READY_TO_SET_BALL]
    /\ ticks = 0
    /\ twin = Null

\* a devicemotion event TrackStep after the previous one; after the first
\* FreeSamples events the club is held still
TrackSample(s) ==
    /\ ticks < MaxTrackSamples
    /\ ticks >= FreeSamples => s.name = "rest"
    /\ ticks' = ticks + 1
    /\ now' = now + TrackStep
    /\ Commit(handleDeviceMotion(
           [At(now + TrackStep) EXCEPT !.obs.moved = @ \/ s.name # "rest"], s.a, s.r))
    /\ lastEvent' = [name |-> s.name, from |-> currentState]
    /\ UNCHANGED <<imuPermissionGranted, lastRenderTime>>

SpecTrack == InitTrack /\ [][\E s \in Samples : TrackSample(s)]_vars

\* ------------------------------------------------------------------------
\* The two remaps of the edge-first grip
\* ------------------------------------------------------------------------
\* tip vectors in phone coordinates, components in metres
RemapVectors ==
    {Vec(F(x), F(y), F(z)) : x \in {0 - 1, 0, 1, 2}, y \in {0 - 1, 0, 1, 2},
                             z \in {0 - 1, 0, 1, 2}}

InitRemap ==
    /\ Holds(Loaded(NAMED, defaultSettings))
    /\ imuPermissionGranted = FALSE
    /\ lastRenderTime = 0
    /\ lastEvent = [name |-> "load", from |-> READY_TO_SET_BALL]
    /\ ticks = 0
    /\ twin \in RemapVectors

\* tracking.js 167-178 applied to the vector
RemapTip ==
    /\ ticks = 0
    /\ ticks' = 1
    /\ Store([World EXCEPT !.clubTipTracking.tipPosition = EdgeRemapPosition(twin)])
    /\ lastEvent' = [name |-> "remapTip", from |-> currentState]
    /\ UNCHANGED <<now, imuPermissionGranted, lastRenderTime, twin>>

\* game-logic.js 321-332 applied to the remapped tip, as the velocity of a
\* move from the origin to that tip in one second
RemapVelocity ==
    /\ ticks = 1
    /\ ticks' = 2
    /\ Store([World EXCEPT !.swingData.impactVelocity =
                               EdgeRemapVelocity(clubTipTracking.tipPosition)])
    /\ lastEvent' = [name |-> "remapVelocity", from |-> currentState]
    /\ UNCHANGED <<now, imuPermissionGranted, lastRenderTime, twin>>

SpecRemap == InitRemap /\ [][RemapTip \/ RemapVelocity]_vars

\* ------------------------------------------------------------------------
\* Properties
\* ------------------------------------------------------------------------
Ticks == SampleNames \cup {"render"}

\* the last event was a tick that found a session open: it checked the timer
TimeoutCheckMade == lastEvent.name \in Ticks /\ lastEvent.from = SWINGING

\* C1: in a session with no hit, the first timeout check made at or after
\* swingTimeout seconds puts the state back to READY_TO_SET_BALL and raises
\* the alarm, and the alarm is raised once per session whatever follows.
C1_TimeoutOnce ==
    /\ obs.alarms <= 1
    /\ (TimeoutCheckMade /\ obs.hits = 0
        /\ now - swingTimer.startTime >= settings.swingTimeout)
           => (currentState = READY_TO_SET_BALL /\ obs.alarms = 1)

\* the three conditions of a hit, as the claim states them
C2_Near == Norm3(clubTipTracking.tipPosition) < settings.hitZoneDiameter \div 200
C2_Fast == Norm3(imuData.acceleration) > settings.minSwingSpeed
C2_Backswing ==
    \E i \in 1..Len(clubTipTracking.history) :
        /\ i > Len(clubTipTracking.history) - 20
        /\ Norm3(clubTipTracking.history[i].position) > 150

C3_HitOnce ==
    [][/\ obs'.hits <= 1
       /\ obs'.launches <= 1
       /\ (swingData.hitDetected /\ lastEvent'.name \notin {"TeeUp", "ResetGame"})
          => /\ swingData'.hitDetected
             /\ swingData'.impactVelocity = swingData.impactVelocity
             /\ obs'.hits = obs.hits
             /\ obs'.launches = obs.launches]_vars

C3_Witness ==
    swingData.hitDetected /\ obs.hits = 1 /\ lastEvent.name \in Ticks
    /\ lastEvent.from = BALL_FLYING

\* C4 as stated: setBallPosition starts the countdown and returns in state
\* BALL_SET_READY_TO_SWING.
C4_LeavesBallSet ==
    lastEvent.name = "TeeUp"
    => /\ swingTimer.timeRemaining = settings.swingTimeout
       /\ ~swingTimer.expired
       /\ currentState = BALL_SET_READY_TO_SWING

\* C4: setBallPosition starts the countdown (timeRemaining = swingTimeout,
\* expired = false, startTime = now) and returns in state SWINGING.
C4_LeavesSwinging ==
    lastEvent.name = "TeeUp"
    => /\ swingTimer.timeRemaining = settings.swingTimeout
       /\ ~swingTimer.expired
       /\ swingTimer.startTime = now
       /\ ballPositionSet
       /\ currentState = SWINGING

\* a tee-up some time after the page was loaded
C4_Witness == lastEvent.name = "TeeUp" /\ now > Epoch /\ currentState = SWINGING

\* C5: the state changes only by a tee-up (READY_TO_SET_BALL, through
\* BALL_SET_READY_TO_SWING, to SWINGING within the handler), by a registered
\* hit (SWINGING to BALL_FLYING), by a landing (BALL_FLYING to
\* SHOWING_RESULTS), by a timeout (to READY_TO_SET_BALL) or by a reset.
C5_Transitions ==
    [][currentState' # currentState
       => \/ /\ lastEvent'.name = "TeeUp"
             /\ currentState = READY_TO_SET_BALL
             /\ currentState' = SWINGING
          \/ /\ currentState = SWINGING
             /\ currentState' = BALL_FLYING
             /\ obs'.hits = obs.hits + 1
             /\ swingData'.hitDetected
          \/ /\ currentState = BALL_FLYING
             /\ currentState' = SHOWING_RESULTS
             /\ ballFlight.flying
             /\ ~ballFlight'.flying
          \/ /\ currentState \in {BALL_SET_READY_TO_SWING, SWINGING}
             /\ currentState' = READY_TO_SET_BALL
             /\ obs'.alarms = obs.alarms + 1
          \/ /\ lastEvent'.name = "ResetGame"
             /\ currentState' = READY_TO_SET_BALL]_vars

C5_Witness == currentState = SHOWING_RESULTS /\ obs.hits = 1 /\ obs.saves = 1

\* C6: after a registered hit the z component of the impact velocity, and of
\* the velocity the ball is launched with, is not negative.
C6_AwayNotNegative ==
    (swingData.hitDetected /\ obs.launches = 1)
    => /\ Ge(swingData.impactVelocity.z, 0)
       /\ (Len(ballFlight.trajectory) = 1 => Ge(ballFlight.velocity.z, 0))

\* the tracker has just computed the tip from a "rest" sample
TipComputedAtRest ==
    /\ lastEvent.name = "rest"
    /\ clubTipTracking.history # <<>>
    /\ clubTipTracking.history[Len(clubTipTracking.history)].timestamp = now

\* C7: the tip computed at rest after a calibration, with no movement since
\* that calibration, is (0,0,0).
C7_RestTipAtOrigin ==
    (currentState = SWINGING /\ ~obs.moved /\ TipComputedAtRest)
    => clubTipTracking.tipPosition = ZeroVec

\* C8: resetGame, in any state, leaves READY_TO_SET_BALL, the identity
\* quaternion, a zero tip and offset, an empty history, tracking inactive, no
\* hit, the timer not expired and the ball at rest with no trajectory.
C8_ResetClean ==
    lastEvent.name = "ResetGame"
    => /\ currentState = READY_TO_SET_BALL
       /\ clubTipTracking.quaternion = IdentityQuat
       /\ clubTipTracking.tipPosition = ZeroVec
       /\ clubTipTracking.offset = ZeroVec
       /\ clubTipTracking.history = <<>>
       /\ ~clubTipTracking.trackingActive
       /\ ~swingData.hitDetected
       /\ ~swingTimer.expired
       /\ ~ballFlight.flying
       /\ ballFlight.trajectory = <<>>

\* a reset while the ball is in the air
C8_Witness == lastEvent = [name |-> "ResetGame", from |-> BALL_FLYING]

\* the quaternion has no NaN or infinite component
QuatFinite(q) == isFinite(q.w) /\ isFinite(q.x) /\ isFinite(q.y) /\ isFinite(q.z)

\* the rounding of three-decimal arithmetic, the model's stand-in for 1e-6
NormTolerance == 3

\* C9: after a filter update whose accelerometer input is finite and not
\* zero, the norm of the quaternion is 1 (within the rounding of the model).
C9_UnitNorm ==
    (lastEvent.name = "filter" /\ Norm3(imuData.acceleration) # 0)
    => LET n == Hypot4(clubTipTracking.quaternion.w, clubTipTracking.quaternion.x,
                       clubTipTracking.quaternion.y, clubTipTracking.quaternion.z)
       IN  isFinite(n) /\ AbsInt(n - F(1)) <= NormTolerance

\* C10: no filter update leaves a NaN or infinite component in the
\* quaternion, and an update with |accel| = 0 leaves it unchanged.
C10_NoNonFinite ==
    [][lastEvent'.name = "filter"
       => /\ QuatFinite(clubTipTracking'.quaternion)
          /\ (Norm3(imuData'.acceleration) = 0
              => clubTipTracking'.quaternion = clubTipTracking.quaternion)]_vars

\* C11: for one recorded trace, a hit registered under the settings
\* (minSwingSpeed, hitZoneDiameter) is also registered under settings with a
\* minSwingSpeed not larger and a hitZoneDiameter not smaller.
C11_LooserStillHits ==
    /\ twin.settings.minSwingSpeed <= settings.minSwingSpeed
    /\ twin.settings.hitZoneDiameter >= settings.hitZoneDiameter
    /\ obs.hits >= 1 => twin.obs.hits >= 1

\* a hit under the strict settings, with both settings looser in the twin
C11_Witness ==
    /\ obs.hits = 1
    /\ twin.obs.hits = 1
    /\ twin.settings.minSwingSpeed < settings.minSwingSpeed
    /\ twin.settings.hitZoneDiameter > settings.hitZoneDiameter

\* a frame that updateBallPhysics integrates is being delivered to a ball in
\* flight
IntegratedFrame ==
    /\ lastEvent'.name = "frame"
    /\ ballFlight.flying
    /\ now' - now <= 100

\* the flight after the integration of that frame, before the landing test
Integrated ==
    MoveBall(ballFlight, FlightVelocity(ballFlight, settings, now' - now),
             now' - now, settings)

Landed == ~ballFlight.flying /\ obs.saves >= 1

C13_LandsIffDown ==
    [][IntegratedFrame =>
         IF Le(Integrated.position.y, 0) /\ Lt(Integrated.velocity.y, 0)
         THEN /\ ~ballFlight'.flying
              /\ ballFlight'.position = [Integrated.position EXCEPT !.y = 0]
              /\ (isFinite(Integrated.position.x) /\ isFinite(Integrated.position.z))
                   => /\ ballFlight'.landingDistance * ballFlight'.landingDistance
                           <= Integrated.position.x * Integrated.position.x
                              + Integrated.position.z * Integrated.position.z
                      /\ (ballFlight'.landingDistance + 1) * (ballFlight'.landingDistance + 1)
                           > Integrated.position.x * Integrated.position.x
                             + Integrated.position.z * Integrated.position.z
              /\ lastShot'.distance = ballFlight'.landingDistance
              /\ lastShot'.maxHeight = Integrated.maxHeight
              /\ lastShot'.velocity = Some(swingData.impactVelocity)
              /\ obs'.saves = obs.saves + 1
              /\ currentState' = SHOWING_RESULTS
         ELSE /\ ballFlight' = Integrated
              /\ ballFlight'.flying
              /\ obs'.saves = obs.saves
              /\ lastShot' = lastShot
              /\ currentState' = BALL_FLYING]_vars

\* a frame has landed a ball that flew for more than one frame
C13_Witness ==
    /\ lastEvent.name = "frame"
    /\ lastEvent.from = BALL_FLYING
    /\ Landed
    /\ obs.saves = 1
    /\ currentState = SHOWING_RESULTS
    /\ ballFlight.landingDistance > 0
    /\ Len(ballFlight.trajectory) > 3

\* C14: at the landing lastShot.spin is the spin computed at the launch,
\* before any decay.
C14_SpinAtLanding ==
    Landed =>
        lastShot.spin =
            Some(LaunchSpin(LaunchVelocity(swingData.impactVelocity, settings), settings))

\* C15: while the ball flies an integrated frame appends exactly one
\* trajectory point and leaves the earlier points alone; after the landing
\* frames change neither trajectory, position, landingDistance nor maxHeight.
C15_TrajectoryGrows ==
    [][/\ IntegratedFrame
          => /\ Len(ballFlight'.trajectory) = Len(ballFlight.trajectory) + 1
             /\ SubSeq(ballFlight'.trajectory, 1, Len(ballFlight.trajectory))
                  = ballFlight.trajectory
       /\ (Landed /\ lastEvent'.name = "frame")
          => /\ ballFlight'.trajectory = ballFlight.trajectory
             /\ ballFlight'.position = ballFlight.position
             /\ ballFlight'.landingDistance = ballFlight.landingDistance
             /\ ballFlight'.maxHeight = ballFlight.maxHeight]_vars

\* a frame was delivered after a landing that followed several frames
C15_Witness ==
    /\ lastEvent.name = "frame"
    /\ lastEvent.from = SHOWING_RESULTS
    /\ Landed
    /\ Len(ballFlight.trajectory) > 3

\* the history with the samples between the newest and the 5th-newest
\* replaced by copies of the 5th-newest
OnlyEnds(h) ==
    [i \in 1..Len(h) |->
        IF i > Len(h) - 4 /\ i < Len(h)
        THEN [h[Len(h) - 4] EXCEPT !.timestamp = h[i].timestamp]
        ELSE h[i]]

\* C16: calculateImpactVelocity returns exactly 5 x the raw acceleration when
\* the history holds fewer than 5 samples, the zero vector when the newest
\* and the 5th-newest timestamp are equal, and otherwise a velocity that
\* depends on those two samples only; every result is finite.
C16_ImpactVelocity ==
    (lastEvent.name = "impact" /\ obs.hits = 1) =>
        /\ isFinite(swingData.impactVelocity.x)
        /\ isFinite(swingData.impactVelocity.y)
        /\ isFinite(swingData.impactVelocity.z)
        /\ IF Len(clubTipTracking.history) < 5
           THEN /\ swingData.impactVelocity.x = 5 * imuData.acceleration.x
                /\ swingData.impactVelocity.y = 5 * imuData.acceleration.y
                /\ swingData.impactVelocity.z = 5 * imuData.acceleration.z
           ELSE IF clubTipTracking.history[Len(clubTipTracking.history)].timestamp
                     = clubTipTracking.history[Len(clubTipTracking.history) - 4].timestamp
           THEN swingData.impactVelocity = ZeroVec
           ELSE swingData.impactVelocity =
                    calculateImpactVelocity(
                        [World EXCEPT !.clubTipTracking.history = OnlyEnds(@)])

\* a hit whose velocity came from a history of five samples with distinct
\* timestamps
C16_Witness ==
    /\ lastEvent.name = "impact"
    /\ obs.hits = 1
    /\ Len(clubTipTracking.history) = 5
    /\ clubTipTracking.history[5].timestamp > clubTipTracking.history[1].timestamp
    /\ swingData.impactVelocity # ZeroVec
    /\ OnlyEnds(clubTipTracking.history) # clubTipTracking.history

\* C19: launchBall never starts a flight with a velocity or spin component
\* that is not finite.
C19_FiniteLaunch ==
    (lastEvent.name = "impact" /\ ballFlight.flying) =>
        /\ isFinite(ballFlight.velocity.x)
        /\ isFinite(ballFlight.velocity.y)
        /\ isFinite(ballFlight.velocity.z)
        /\ isFinite(ballFlight.spin.x)
        /\ isFinite(ballFlight.spin.y)
        /\ isFinite(ballFlight.spin.z)

\* C17: in every session of the motion-gated tracker (unnamed/part_005), from
\* setBallPosition until a sample with |acceleration| > motionThreshold
\* arrives, no entry is added to the tip history and the tip position is not
\* updated; this includes a session started after a timeout without a reset.
C17_GatedUntilMotion ==
    [][(/\ revision = UNNAMED
        /\ ballPositionSet
        /\ ~obs.moved
        /\ lastEvent'.name = "rest")
       => /\ clubTipTracking'.history = clubTipTracking.history
          /\ clubTipTracking'.tipPosition = clubTipTracking.tipPosition]_vars

\* C18: the tip history spans at most maxTrackingDuration (2 s): after any
\* tracking update no entry is more than 2 s older than the newest.
C18_SpanAtMost2s ==
    \A i \in 1..Len(clubTipTracking.history) :
        clubTipTracking.history[Len(clubTipTracking.history)].timestamp
            - clubTipTracking.history[i].timestamp <= 2000

\* C20: in the edge-first grip the velocity remap of the impact resolver
\* undoes the position remap of the tip tracker: applied one after the other
\* they give the vector back.
C20_RemapsInverse ==
    lastEvent.name = "remapVelocity" => swingData.impactVelocity = twin

\* the velocity the ball of this shot was launched with
Launched == LaunchVelocity(swingData.impactVelocity, settings)

\* every integrated frame of the flight lasted d
FixedStep(d) ==
    \A i \in 2..Len(ballFlight.trajectory) :
        ballFlight.trajectory[i].z - ballFlight.trajectory[i - 1].z = Mul(Launched.z, d)

\* rounding allowed when the landing distance is compared with the range (mm)
RangeTolerance == 3

\* C21: with spinEffect = 0, airResistance = 0 and a launch velocity
\* (0, vy, vz), vy, vz > 0, a flight stepped with a fixed dt <= 0.1 s lands
\* with x = 0 and at a distance that differs from the closed-form range
\* vz * (2 * vy / gravity) by at most one step vz * dt.
C21_ClosedFormRange ==
    (/\ Landed
     /\ settings.spinEffect = 0
     /\ settings.airResistance = 0
     /\ Launched.x = 0
     /\ Gt(Launched.y, 0)
     /\ Gt(Launched.z, 0))
    => /\ ballFlight.position.x = 0
       /\ \A d \in {50, 100} :
            FixedStep(d) =>
                AbsInt(ballFlight.landingDistance
                       - Mul(Launched.z, Div(2 * Launched.y, settings.gravity)))
                    <= Mul(Launched.z, d) + RangeTolerance

\* such a flight has landed after several frames of 50 ms
C21_Witness ==
    /\ Landed
    /\ settings.spinEffect = 0
    /\ settings.airResistance = 0
    /\ Launched.x = 0
    /\ Gt(Launched.y, 0)
    /\ Gt(Launched.z, 0)
    /\ FixedStep(50)
    /\ Len(ballFlight.trajectory) > 3
    /\ ballFlight.landingDistance > 0

\* C22: within one session at most one of timeout and hit occurs: the tick
\* that finds the timer expired registers no hit, even if the hit conditions
\* hold on that sample, and after a hit (state BALL_FLYING or
\* SHOWING_RESULTS) the timer never expires and nothing but a reset leads to
\* READY_TO_SET_BALL.
C22_TimeoutOrHit ==
    [][/\ (swingTimer'.expired /\ ~swingTimer.expired) => obs'.hits = obs.hits
       /\ obs'.alarms + obs'.hits <= 1
       /\ (swingData.hitDetected /\ currentState \in {BALL_FLYING, SHOWING_RESULTS})
          => /\ ~swingTimer'.expired
             /\ obs'.alarms = obs.alarms
             /\ currentState' = READY_TO_SET_BALL => lastEvent'.name = "ResetGame"]_vars

\* a sample on which the hit conditions hold has found the timer expired
C22_Witness ==
    /\ lastEvent.name \in SampleNames
    /\ lastEvent.from = SWINGING
    /\ swingTimer.expired
    /\ obs.alarms = 1
    /\ obs.hits = 0
    /\ HitConditions(World)

Pushed(v, m, dt, discard) == IF discard /\ ~isFinite(m) THEN v ELSE Add(v, Mul(m, dt))

\* the velocity of the reference step after gravity and the Magnus force
AfterMagnus(v, spin, cfg, dt, discard) ==
    IF Gt(cfg.spinEffect, 0)
    THEN Vec(Pushed(v.x, TimesSpinFactor(cfg.spinEffect,
                            Sub(Mul(spin.y, v.z), Mul(spin.z, v.y))), dt, discard),
             Pushed(v.y, TimesSpinFactor(cfg.spinEffect,
                            Sub(Mul(spin.z, v.x), Mul(spin.x, v.z))), dt, discard),
             Pushed(v.z, TimesSpinFactor(cfg.spinEffect,
                            Sub(Mul(spin.x, v.y), Mul(spin.y, v.x))), dt, discard))
    ELSE v

\* the velocity of the reference step after the drag
AfterDrag(v, cfg) ==
    IF Gt(cfg.airResistance, 0)
    THEN Vec(Mul(v.x, Sub(F(1), Mul(cfg.airResistance, 10))),
             IF Gt(v.y, 0) THEN Mul(v.y, Sub(F(1), Mul(cfg.airResistance, 10))) ELSE v.y,
             Mul(v.z, Sub(F(1), Mul(cfg.airResistance, 10))))
    ELSE v

\* the reference step: gravity, Magnus force and spin decay, drag
ReferenceVelocity(bf, cfg, dt, discard) ==
    AfterDrag(AfterMagnus(Vec(bf.velocity.x,
                              Sub(bf.velocity.y, Mul(cfg.gravity, dt)),
                              bf.velocity.z),
                          bf.spin, cfg, dt, discard), cfg)

\* the frame being delivered is the reference step with the velocity v: the
\* new velocity, the decayed spin, position += velocity * dt, the new
\* trajectory point and the maximum height
StepsWith(v) ==
    /\ ballFlight'.velocity = v
    /\ ballFlight'.spin =
          IF Gt(settings.spinEffect, 0)
          THEN Vec(Mul(ballFlight.spin.x, 980), Mul(ballFlight.spin.y, 980),
                   Mul(ballFlight.spin.z, 980))
          ELSE ballFlight.spin
    /\ ballFlight'.trajectory[Len(ballFlight'.trajectory)] =
          Vec(Add(ballFlight.position.x, Mul(v.x, now' - now)),
              Add(ballFlight.position.y, Mul(v.y, now' - now)),
              Add(ballFlight.position.z, Mul(v.z, now' - now)))
    /\ ballFlight'.maxHeight =
          IF Gt(Add(ballFlight.position.y, Mul(v.y, now' - now)), ballFlight.maxHeight)
          THEN Add(ballFlight.position.y, Mul(v.y, now' - now))
          ELSE ballFlight.maxHeight

Measured ==
    IF revision = NAMED /\ settings.phoneOrientation = "edge"
    THEN EdgeRemapVelocity(HistoryVelocity(clubTipTracking.history))
    ELSE HistoryVelocity(clubTipTracking.history)

HistoryBased ==
    /\ lastEvent.name = "impact"
    /\ obs.hits = 1
    /\ Len(clubTipTracking.history) >= 5
    /\ clubTipTracking.history[Len(clubTipTracking.history)].timestamp
          # clubTipTracking.history[Len(clubTipTracking.history) - 4].timestamp

SessionOpen == currentState \in {BALL_SET_READY_TO_SWING, SWINGING}

\* C26: a swing recording started at tee-up is never left pending once its
\* session has ended: a hit appends it to recordedSwings exactly once, a
\* timeout discards it without appending, and after the end of the session by
\* hit, timeout or reset currentRecording is null.
C26_NoPendingRecording ==
    [][(SessionOpen /\ swingRecorder.currentRecording.active) =>
          /\ ~SessionOpen' => ~swingRecorder'.currentRecording.active
          /\ obs'.hits > obs.hits =>
                Len(swingRecorder'.recordedSwings) = Len(swingRecorder.recordedSwings) + 1
          /\ obs'.alarms > obs.alarms =>
                swingRecorder'.recordedSwings = swingRecorder.recordedSwings]_vars

\* C27: after the landing lastShot.velocity still equals the velocity the
\* ball was launched with, the impact velocity scaled by 45.9 / ballWeight.
C27_LaunchVelocityKept ==
    Landed => lastShot.velocity = Some(Launched)

\* C28: in every reachable state the ball is flying exactly when the state
\* is BallFlying.
C28_FlyingIffBallFlying ==
    ballFlight.flying <=> currentState = BALL_FLYING

\* a flight was started by a hit, and another was abandoned by a reset
C28_Witness ==
    /\ lastEvent.name = "ResetGame"
    /\ lastEvent.from = BALL_FLYING
    /\ ~ballFlight.flying
    /\ obs.launches >= 1

\* the calibration offset has no NaN or infinite component
OffsetFinite(o) == isFinite(o.x) /\ isFinite(o.y) /\ isFinite(o.z)

\* C29: once a component of the quaternion is not finite, every later tracking
\* update, timeout and tee-up leaves the quaternion not finite and no hit is
\* registered; only resetGame returns the quaternion and the calibration
\* offset to finite values.
C29_NaNUntilReset ==
    [][~QuatFinite(clubTipTracking.quaternion) =>
          /\ lastEvent'.name # "ResetGame" => ~QuatFinite(clubTipTracking'.quaternion)
          /\ ~(obs'.hits > obs.hits)
          /\ swingData'.hitDetected => swingData.hitDetected
          /\ lastEvent'.name = "ResetGame" =>
                /\ QuatFinite(clubTipTracking'.quaternion)
                /\ OffsetFinite(clubTipTracking'.offset)]_vars

\* a tee-up after the timeout of a session in which the quaternion became NaN
C29_Witness ==
    /\ lastEvent = [name |-> "TeeUp", from |-> READY_TO_SET_BALL]
    /\ ~QuatFinite(clubTipTracking.quaternion)
    /\ ~OffsetFinite(clubTipTracking.offset)
    /\ currentState = SWINGING

\* C30: a landing writes the distance and the maximum height only into the
\* recorded swing of the shot that lands, the one recorded in the session
\* that began at swingTimer.startTime; the swing of another shot is never set.
C30_OwnSwingOnly ==
    [][\A i \in 1..Len(swingRecorder.recordedSwings) :
          (i <= Len(swingRecorder'.recordedSwings)
           /\ swingRecorder'.recordedSwings[i] # swingRecorder.recordedSwings[i])
          => swingRecorder.recordedSwings[i].startTime = swingTimer.startTime]_vars

====
